---------------------------- MODULE Spec2Model ----------------------------
(***************************************************************************)
(* A model of pkg/services/github.go of notifications-engine: the GitHub   *)
(* commit-status service.                                                  *)
(*                                                                         *)
(*   - GetTemplater compiles five field templates and returns the closure  *)
(*     that renders them into notification.GitHub;                         *)
(*   - trunc, fullNameByRepoURL and Send turn a notification into one      *)
(*     Repositories.CreateStatus call.                                     *)
(*                                                                         *)
(* Representation of Go strings:                                           *)
(*   - Notification.Message is a sequence of bytes (0..255); code points   *)
(*     exist only through the UTF-8 decoder, as in Go;                     *)
(*   - a repository URL is a sequence of lexemes, each an indivisible      *)
(*     piece of the text ("https://", "github.com", "/", "o", ".git", ..); *)
(*   - template texts, rendered fields and error messages are TLA+ strings.*)
(***************************************************************************)
EXTENDS Integers, Sequences, FiniteSets, TLC

VARIABLES
    \* ---- Send (lines 177-202) ----
    notification,   \* the Notification handed to Send
    pc,             \* where Send is: "start", "CreateStatus", "return", "panic"
    fullName,       \* the value fullNameByRepoURL returned (line 182)
    u,              \* local u of Send (line 182)
    description,    \* local description of Send (line 184)
    calls,          \* the CreateStatus requests Send has issued
    apiReturn,      \* what CreateStatus returned to Send
    sendResult,     \* what Send returned to its caller
    \* ---- GetTemplater and the closure it returns (lines 46-118) ----
    g,              \* the receiver: the configured GitHubNotification
    name,           \* the name GetTemplater is given
    templater,      \* what GetTemplater returned: the closure's captured
                    \* templates, or the error
    notif,          \* per caller: the Notification the closure works on
    cvars,          \* per caller: the vars the closure is given
    epc,            \* per caller: where the closure is
    buf,            \* the bytes.Buffer locals of the running closures
    ret,            \* per caller: what the closure returned
    entry           \* per caller: the Notification as it was at the call

sendVars == <<notification, pc, fullName, u, description, calls, apiReturn,
              sendResult>>

tmplVars == <<g, name, templater, notif, cvars, epc, buf, ret, entry>>

vars == <<sendVars, tmplVars>>

\* ------------------------------------------------------------------------
\* Bounds of the model
\* ------------------------------------------------------------------------

\* A repository URL's path has at most this many lexemes.
MaxPathTokens == 5

\* Messages have between TruncLimit - MsgSlack and TruncLimit + MsgSlack
\* code points (and the empty message).
MsgSlack == 3

\* The number of callers that may run the closure at the same time.
MaxCallers == 2

\* ------------------------------------------------------------------------
\* Errors
\* ------------------------------------------------------------------------

NilErr == [nil |-> TRUE]

Err(m) == [nil |-> FALSE, msg |-> m]

\* ------------------------------------------------------------------------
\* unicode/utf8 on byte sequences
\* ------------------------------------------------------------------------

RuneError == 65533

\* utf8.first[b]: the length of the encoding b starts (0: b starts none).
utf8Size(b) ==
    IF b < 128 THEN 1
    ELSE IF b >= 194 /\ b <= 223 THEN 2
    ELSE IF b >= 224 /\ b <= 239 THEN 3
    ELSE IF b >= 240 /\ b <= 244 THEN 4
    ELSE 0

\* utf8.acceptRanges: the range of the second byte after first byte b.
utf8AcceptLo(b) == IF b = 224 THEN 160 ELSE IF b = 240 THEN 144 ELSE 128

utf8AcceptHi(b) == IF b = 237 THEN 159 ELSE IF b = 244 THEN 143 ELSE 191

IsCont(b) == b >= 128 /\ b <= 191

\* utf8.DecodeRuneInString(s[i:]) for i <= Len(s): the rune and its width.
\* An invalid or short encoding is RuneError of width 1.
DecodeRuneAt(s, i) ==
    LET b0 == s[i]
        sz == utf8Size(b0)
        n  == Len(s) - i + 1
        bad == [r |-> RuneError, size |-> 1]
    IN  IF sz = 1 THEN [r |-> b0, size |-> 1]
        ELSE IF sz = 0 \/ n < sz THEN bad
        ELSE IF s[i+1] < utf8AcceptLo(b0) \/ s[i+1] > utf8AcceptHi(b0) THEN bad
        ELSE IF sz = 2
             THEN [r |-> (b0 % 32) * 64 + (s[i+1] % 64), size |-> 2]
        ELSE IF ~IsCont(s[i+2]) THEN bad
        ELSE IF sz = 3
             THEN [r |-> (b0 % 16) * 4096 + (s[i+1] % 64) * 64 + (s[i+2] % 64),
                   size |-> 3]
        ELSE IF ~IsCont(s[i+3]) THEN bad
        ELSE [r |-> (b0 % 8) * 262144 + (s[i+1] % 64) * 4096
                    + (s[i+2] % 64) * 64 + (s[i+3] % 64),
              size |-> 4]

\* The decoding loop, run for at most k runes from byte i on.
RECURSIVE DecodeBlock(_, _, _, _)
DecodeBlock(s, i, k, acc) ==
    IF k = 0 \/ i > Len(s) THEN [next |-> i, runes |-> acc]
    ELSE LET d == DecodeRuneAt(s, i)
         IN  DecodeBlock(s, i + d.size, k - 1, Append(acc, d.r))

\* The decoding loop from byte i to the end of s, evaluated twelve runes at a
\* time (which keeps the evaluation's nesting shallow; the result is that of
\* the plain loop).
RECURSIVE DecodeFrom(_, _, _)
DecodeFrom(s, i, acc) ==
    IF i > Len(s) THEN acc
    ELSE LET b == DecodeBlock(s, i, 12, <<>>)
         IN  DecodeFrom(s, b.next, acc \o b.runes)

\* []rune(s): the code points of s, RuneError for each invalid byte.
Runes(s) == DecodeFrom(s, 1, <<>>)

\* utf8.RuneCountInString(s)
RuneCountInString(s) == Len(Runes(s))

\* utf8.EncodeRune: the bytes of one rune (string(r)).
EncodeRune(r) ==
    IF r < 0 \/ r > 1114111 \/ (r >= 55296 /\ r <= 57343) THEN <<239, 191, 189>>
    ELSE IF r < 128 THEN <<r>>
    ELSE IF r < 2048 THEN <<192 + (r \div 64), 128 + (r % 64)>>
    ELSE IF r < 65536
         THEN <<224 + (r \div 4096), 128 + ((r \div 64) % 64), 128 + (r % 64)>>
    ELSE <<240 + (r \div 262144), 128 + ((r \div 4096) % 64),
           128 + ((r \div 64) % 64), 128 + (r % 64)>>

\* The encoding loop over rs[i..j].
RECURSIVE EncodeBlock(_, _, _, _)
EncodeBlock(rs, i, j, acc) ==
    IF i > j THEN acc
    ELSE EncodeBlock(rs, i + 1, j, acc \o EncodeRune(rs[i]))

\* The encoding loop from rs[i] on, twelve runes at a time.
RECURSIVE EncodeFrom(_, _, _)
EncodeFrom(rs, i, acc) ==
    IF i > Len(rs) THEN acc
    ELSE LET j == IF i + 11 < Len(rs) THEN i + 11 ELSE Len(rs)
         IN  EncodeFrom(rs, j + 1, acc \o EncodeBlock(rs, i, j, <<>>))

\* string(rs) for a rune slice rs.
StringOfRunes(rs) == EncodeFrom(rs, 1, <<>>)

\* "..." as bytes
Ellipsis == <<46, 46, 46>>

\* ------------------------------------------------------------------------
\* trunc (lines 156-161)
\* ------------------------------------------------------------------------

\* the limit Send passes to trunc
TruncLimit == 140

truncBytes(message, n) ==
    IF Len(message) > n
    THEN SubSeq(message, 1, n - 3) \o Ellipsis
    ELSE message

trunc(message, n) ==
    IF RuneCountInString(message) > n
    THEN StringOfRunes(SubSeq(Runes(message), 1, n - 3)) \o Ellipsis
    ELSE message

\* ------------------------------------------------------------------------
\* strings and text helpers on lexeme sequences
\* ------------------------------------------------------------------------

IndexOf(s, sep) ==
    IF \E i \in 1..Len(s) : s[i] = sep
    THEN CHOOSE i \in 1..Len(s) : s[i] = sep /\ \A j \in 1..(i-1) : s[j] # sep
    ELSE 0

\* strings.Split(s, sep): the pieces between the separators, empty ones kept;
\* a string without separator is one piece.
RECURSIVE stringsSplit(_, _)
stringsSplit(s, sep) ==
    LET i == IndexOf(s, sep)
    IN  IF i = 0 THEN <<s>>
        ELSE <<SubSeq(s, 1, i - 1)>> \o stringsSplit(SubSeq(s, i + 1, Len(s)), sep)

\* strings.Join(parts, sep)
RECURSIVE stringsJoin(_, _)
stringsJoin(parts, sep) ==
    IF Len(parts) = 0 THEN <<>>
    ELSE IF Len(parts) = 1 THEN parts[1]
    ELSE parts[1] \o <<sep>> \o stringsJoin(Tail(parts), sep)

\* text.SplitRemoveEmpty(in, separator): split, the empty pieces dropped.
SplitRemoveEmpty(in, separator) ==
    SelectSeq(stringsSplit(in, separator), LAMBDA item : item # <<>>)

\* gitSuffix.ReplaceAllString(path, ""): `\.git$` removed (lines 23, 169).
StripGitSuffix(path) ==
    IF Len(path) > 0 /\ path[Len(path)] = ".git"
    THEN SubSeq(path, 1, Len(path) - 1)
    ELSE path

\* ------------------------------------------------------------------------
\* giturls.Parse (github.com/whilp/git-urls), called at line 164
\* ------------------------------------------------------------------------

\* the lexemes the scp pattern's host class [a-zA-Z0-9._-]+ accepts
HostLexemes == {"github.com", "o", "r", ".git"}

\* ParseTransport: url.Parse with a valid transport scheme; the host runs to
\* the first "/", the path is the rest.
ParseTransport(rawURL) ==
    IF Len(rawURL) >= 1 /\ rawURL[1] = "https://"
    THEN LET rest == SubSeq(rawURL, 2, Len(rawURL))
             i    == IndexOf(rest, "/")
         IN  [err |-> FALSE,
              Path |-> IF i = 0 THEN <<>> ELSE SubSeq(rest, i, Len(rest))]
    ELSE [err |-> TRUE]

\* ParseScp: ^([a-zA-Z0-9_]+@)?([a-zA-Z0-9._-]+):(.*)$ ; the path is group 3.
ParseScp(rawURL) ==
    LET s == IF Len(rawURL) >= 1 /\ rawURL[1] = "git@" THEN Tail(rawURL) ELSE rawURL
        i == IndexOf(s, ":")
    IN  IF i >= 2 /\ \A k \in 1..(i-1) : s[k] \in HostLexemes
        THEN [err |-> FALSE, Path |-> SubSeq(s, i + 1, Len(s))]
        ELSE [err |-> TRUE]

\* ParseLocal: every string is a local path.
ParseLocal(rawURL) == [err |-> FALSE, Path |-> rawURL]

giturlsParse(rawURL) ==
    IF ~ParseTransport(rawURL).err THEN ParseTransport(rawURL)
    ELSE IF ~ParseScp(rawURL).err THEN ParseScp(rawURL)
    ELSE ParseLocal(rawURL)

\* ------------------------------------------------------------------------
\* fullNameByRepoURL (lines 163-175)
\* ------------------------------------------------------------------------

fullNameByRepoURL(rawURL) ==
    LET parsed == giturlsParse(rawURL)
    IN  IF parsed.err THEN [panic |-> TRUE]
        ELSE LET path      == StripGitSuffix(parsed.Path)
                 pathParts == SplitRemoveEmpty(path, "/")
             IN  IF Len(pathParts) >= 2
                 THEN [panic |-> FALSE,
                       v |-> stringsJoin(SubSeq(pathParts, 1, 2), "/")]
                 ELSE [panic |-> FALSE, v |-> path]

\* ------------------------------------------------------------------------
\* Inputs of Send
\* ------------------------------------------------------------------------

PathLexemes == {"/", "o", "r", ".git"}

\* every path of at most MaxPathTokens lexemes
Paths == UNION {[1..n -> PathLexemes] : n \in 0..MaxPathTokens}

\* https://github.com<path>, git@github.com:<path>, and <path> alone
Prefixes == {<<"https://", "github.com">>, <<"git@", "github.com", ":">>, <<>>}

RawURLs == {pre \o p : pre \in Prefixes, p \in Paths}

\* A message is a lead followed by n copies of a unit; per is the number of
\* code points of the unit, leadRunes that of the lead.
\*   "a"; U+00E9; U+4E16 "a"; "a" then U+1F600 U+00E9; the invalid byte 0xFF;
\*   a lead byte 0xC3 without continuation, then "a".
Shapes ==
    { [lead |-> <<>>,   leadRunes |-> 0, unit |-> <<97>>,                per |-> 1],
      [lead |-> <<>>,   leadRunes |-> 0, unit |-> <<195, 169>>,          per |-> 1],
      [lead |-> <<>>,   leadRunes |-> 0, unit |-> <<228, 184, 150, 97>>, per |-> 2],
      [lead |-> <<97>>, leadRunes |-> 1,
       unit |-> <<240, 159, 152, 128, 195, 169>>,                        per |-> 2],
      [lead |-> <<>>,   leadRunes |-> 0, unit |-> <<255>>,               per |-> 1],
      [lead |-> <<>>,   leadRunes |-> 0, unit |-> <<195, 97>>,           per |-> 2] }

\* the message of shape sh with n units
MessageOf(sh, n) ==
    sh.lead \o [p \in 1..(n * Len(sh.unit)) |-> sh.unit[((p - 1) % Len(sh.unit)) + 1]]

\* the numbers of code points the messages have
MsgLens == {0, 1} \cup ((TruncLimit - MsgSlack)..(TruncLimit + MsgSlack))

\* the numbers of units that give shape sh a length of MsgLens
UnitCounts(sh) ==
    {k \in 0..(TruncLimit + MsgSlack) : sh.leadRunes + k * sh.per \in MsgLens}

Messages == UNION {{MessageOf(sh, n) : n \in UnitCounts(sh)} : sh \in Shapes}

\* "aaaaa": the message of the notifications that vary the repository URL
ShortMessage == <<97, 97, 97, 97, 97>>

NoPayload == [present |-> FALSE]

Payload(repoURL, revision, state, label, targetURL) ==
    [present |-> TRUE, RepoURL |-> repoURL, Revision |-> revision,
     State |-> state, Label |-> label, TargetURL |-> targetURL]

AllPayloads ==
    {Payload(url, "abc123", "success", "ci", "http://x") : url \in RawURLs}
    \cup {Payload(url, "def456", "failure", "cd/app", "") : url \in RawURLs}

FewPayloads ==
    {NoPayload,
     Payload(<<"https://", "github.com", "/", "o", "/", "r", ".git">>,
             "abc123", "success", "ci", "http://x"),
     Payload(<<"git@", "github.com", ":", "o", "/", "r">>,
             "def456", "pending", "cd/app", "http://y")}

Notifications ==
    {[GitHub |-> p, Message |-> ShortMessage] : p \in AllPayloads}
    \cup {[GitHub |-> p, Message |-> m] : p \in FewPayloads, m \in Messages}

\* what Repositories.CreateStatus may answer
ApiErrors == {NilErr, Err("401 Bad credentials"), Err("422 Unprocessable Entity")}

\* ------------------------------------------------------------------------
\* text/template, as far as GetTemplater uses it
\* ------------------------------------------------------------------------

defaultRepoURLtemplate == "{{.app.spec.source.repoURL}}"

defaultRevisionTemplate == "{{.app.status.operationState.syncResult.revision}}"

\* a field chain: its fields, and its text inside the action
Chain(fields, text) == [kind |-> "field", chain |-> fields, src |-> text]

\* What the template parser makes of each template text of the model: plain
\* text, a chain of fields of the context, or a syntax error.
Lex(text) ==
    CASE text = defaultRepoURLtemplate ->
            Chain(<<"app", "spec", "source", "repoURL">>, ".app.spec.source.repoURL")
      [] text = defaultRevisionTemplate ->
            Chain(<<"app", "status", "operationState", "syncResult", "revision">>,
                  ".app.status.operationState.syncResult.revision")
      [] text = "{{.repo}}" -> Chain(<<"repo">>, ".repo")
      [] text = "{{.rev}}" -> Chain(<<"rev">>, ".rev")
      [] text = "{{.app.status.sync.status}}" ->
            Chain(<<"app", "status", "sync", "status">>, ".app.status.sync.status")
      [] text = "{{.app.metadata.name}}" ->
            Chain(<<"app", "metadata", "name">>, ".app.metadata.name")
      [] text = "{{.context.argocdUrl}}" ->
            Chain(<<"context", "argocdUrl">>, ".context.argocdUrl")
      [] text = "{{" -> [kind |-> "bad", problem |-> "unclosed action"]
      [] text = "{{.rev}" -> [kind |-> "bad", problem |-> "unexpected \"}\" in operand"]
      [] OTHER -> [kind |-> "text", text |-> text]

\* texttemplate.New(name).Funcs(f).Parse(text): the template, or the parse
\* error, which names the template set (name), the line and the problem.
Parse(tname, f, text) ==
    LET tree == Lex(text)
    IN  IF tree.kind = "bad"
        THEN [err |-> Err("template: " \o tname \o ":1: " \o tree.problem)]
        ELSE [err |-> NilErr, name |-> tname, funcs |-> f, tree |-> tree]

\* Values of a context (map[string]interface{}): a map, a string, a nil
\* interface value (a JSON null), or no value (the entry of a missing key).
Map(m) == [t |-> "map", m |-> m]

Str(str) == [t |-> "str", s |-> str]

Null == [t |-> "nil"]

NoValue == [t |-> "invalid"]

\* the error of an execution: template: NAME:1: executing "NAME" at <SRC>: ...
ExecError(t, problem) ==
    Err("template: " \o t.name \o ":1: executing \"" \o t.name \o "\" at <"
        \o t.tree.src \o ">: " \o problem)

\* The evaluation of template t's field chain from its i-th field on, at
\* value cur (missingkey is the default): a field of a map is its entry, no
\* value when the key is missing; a field of no value is no value; a field
\* of a nil interface or of a string is an execution error. A string prints
\* as itself, no value and nil as "<no value>".
RECURSIVE EvalChain(_, _, _)
EvalChain(t, i, cur) ==
    IF i > Len(t.tree.chain)
    THEN [err |-> NilErr,
          out |-> IF cur.t = "str" THEN cur.s
                  ELSE IF cur.t = "map" THEN "map[...]"
                  ELSE "<no value>"]
    ELSE IF cur.t = "map"
    THEN EvalChain(t, i + 1,
                   IF t.tree.chain[i] \in DOMAIN cur.m
                   THEN cur.m[t.tree.chain[i]] ELSE NoValue)
    ELSE IF cur.t = "invalid"
    THEN EvalChain(t, i + 1, NoValue)
    ELSE IF cur.t = "nil"
    THEN [err |-> ExecError(t, "nil pointer evaluating interface {}."
                               \o t.tree.chain[i]),
          out |-> ""]
    ELSE [err |-> ExecError(t, "can't evaluate field " \o t.tree.chain[i]
                               \o " in type string"),
          out |-> ""]

\* t.Execute(&buffer, vars): the error and what was written to the buffer.
ExecuteTemplate(t, v) ==
    IF t.tree.kind = "text"
    THEN [err |-> NilErr, out |-> t.tree.text]
    ELSE EvalChain(t, 1, Map(v))

\* ------------------------------------------------------------------------
\* GetTemplater (lines 46-118)
\* ------------------------------------------------------------------------

\* the order in which the fields are parsed (lines 52-76) and executed
\* (lines 87-114)
Fields == <<"RepoURL", "Revision", "State", "Label", "TargetURL">>

\* lines 48-51
repoURLtemplate(cfg) ==
    IF cfg.RepoURL # "" THEN cfg.RepoURL ELSE defaultRepoURLtemplate

\* lines 57-60
revisionTemplate(cfg) ==
    IF cfg.Revision # "" THEN cfg.Revision ELSE defaultRevisionTemplate

\* return nil, err
NoTemplater(err) == [ready |-> TRUE, err |-> err, executor |-> FALSE]

\* a variant that parses all five fields and reports the last error
GetTemplaterLastError(cfg, tname, f) ==
    LET repoURL   == Parse(tname, f, repoURLtemplate(cfg))
        revision  == Parse(tname, f, revisionTemplate(cfg))
        state     == Parse(tname, f, cfg.State)
        label     == Parse(tname, f, cfg.Label)
        targetURL == Parse(tname, f, cfg.TargetURL)
    IN  IF ~targetURL.err.nil THEN NoTemplater(targetURL.err)
        ELSE IF ~label.err.nil THEN NoTemplater(label.err)
        ELSE IF ~state.err.nil THEN NoTemplater(state.err)
        ELSE IF ~revision.err.nil THEN NoTemplater(revision.err)
        ELSE IF ~repoURL.err.nil THEN NoTemplater(repoURL.err)
        ELSE [ready |-> TRUE, err |-> NilErr, executor |-> TRUE,
              t |-> [RepoURL |-> repoURL, Revision |-> revision, State |-> state,
                     Label |-> label, TargetURL |-> targetURL]]

\* a variant without the default templates
GetTemplaterNoDefaults(cfg, tname, f) ==
    LET repoURL   == Parse(tname, f, cfg.RepoURL)
        revision  == Parse(tname, f, cfg.Revision)
        state     == Parse(tname, f, cfg.State)
        label     == Parse(tname, f, cfg.Label)
        targetURL == Parse(tname, f, cfg.TargetURL)
    IN  IF ~repoURL.err.nil THEN NoTemplater(repoURL.err)
        ELSE IF ~revision.err.nil THEN NoTemplater(revision.err)
        ELSE IF ~state.err.nil THEN NoTemplater(state.err)
        ELSE IF ~label.err.nil THEN NoTemplater(label.err)
        ELSE IF ~targetURL.err.nil THEN NoTemplater(targetURL.err)
        ELSE [ready |-> TRUE, err |-> NilErr, executor |-> TRUE,
              t |-> [RepoURL |-> repoURL, Revision |-> revision, State |-> state,
                     Label |-> label, TargetURL |-> targetURL]]

\* GetTemplater: the five templates parsed in order, the first parse error
\* returned at once; the closure (its captured templates) when all five parse.
GetTemplater(cfg, tname, f) ==
    LET repoURL   == Parse(tname, f, repoURLtemplate(cfg))
        revision  == Parse(tname, f, revisionTemplate(cfg))
        state     == Parse(tname, f, cfg.State)
        label     == Parse(tname, f, cfg.Label)
        targetURL == Parse(tname, f, cfg.TargetURL)
    IN  IF ~repoURL.err.nil THEN NoTemplater(repoURL.err)
        ELSE IF ~revision.err.nil THEN NoTemplater(revision.err)
        ELSE IF ~state.err.nil THEN NoTemplater(state.err)
        ELSE IF ~label.err.nil THEN NoTemplater(label.err)
        ELSE IF ~targetURL.err.nil THEN NoTemplater(targetURL.err)
        ELSE [ready |-> TRUE, err |-> NilErr, executor |-> TRUE,
              t |-> [RepoURL |-> repoURL, Revision |-> revision, State |-> state,
                     Label |-> label, TargetURL |-> targetURL]]

\* &GitHubNotification{} (line 83)
EmptyPayload == Payload("", "", "", "", "")

\* lines 82-84
Allocate(nt) ==
    IF nt.GitHub.present THEN nt ELSE [nt EXCEPT !.GitHub = EmptyPayload]

\* The closure run by one caller alone (lines 81-117), from its i-th
\* template on: the notification it leaves and the error it returns.
RECURSIVE RunFrom(_, _, _, _)
RunFrom(t, nt, v, i) ==
    IF i > Len(Fields) THEN [notification |-> nt, err |-> NilErr]
    ELSE LET r == ExecuteTemplate(t[Fields[i]], v)
         IN  IF ~r.err.nil THEN [notification |-> nt, err |-> r.err]
             ELSE RunFrom(t, [nt EXCEPT !.GitHub[Fields[i]] = r.out], v, i + 1)

Templater(t, nt, v) == RunFrom(t, Allocate(nt), v, 1)

\* ------------------------------------------------------------------------
\* Inputs of GetTemplater and of the closure
\* ------------------------------------------------------------------------

\* the texttemplate.FuncMap handed through
FuncMap == "funcs"

Names == {"on-deployed", "on-sync-failed"}

Configs ==
    [RepoURL   : {"", "{{.repo}}", "{{"},
     Revision  : {"", "{{.rev}}", "{{.rev}"},
     State     : {"success", "{{.app.status.sync.status}}", "{{"},
     Label     : {"ci", "{{.app.metadata.name}}", "{{"},
     TargetURL : {"http://x", "{{.context.argocdUrl}}", "{{.rev}"}]

FullContext ==
    [app |-> Map([spec |-> Map([source |-> Map([repoURL |-> Str("https://x/y/z.git")])]),
                  status |-> Map([operationState |->
                                     Map([syncResult |-> Map([revision |-> Str("abc123")])]),
                                  sync |-> Map([status |-> Str("Synced")])]),
                  metadata |-> Map([name |-> Str("guestbook")])]),
     context |-> Map([argocdUrl |-> Str("https://argocd")]),
     repo |-> Str("https://github.com/o/r.git"),
     rev |-> Str("def456")]

\* an application that was never synced: no status entry at all
NoStatusContext ==
    [app |-> Map([spec |-> Map([source |-> Map([repoURL |-> Str("git@h:a/b.git")])]),
                  metadata |-> Map([name |-> Str("helm-app")])]),
     context |-> Map([argocdUrl |-> Str("https://cd.example")]),
     rev |-> Str("1111")]

\* status, metadata and context are present and null
NullContext ==
    [app |-> Map([spec |-> Map([source |-> Map([repoURL |-> Str("ssh://h/a/b")])]),
                  status |-> Null,
                  metadata |-> Null]),
     context |-> Null,
     rev |-> Str("0000")]

\* app.spec is a string
OddContext ==
    [app |-> Map([spec |-> Str("none"),
                  status |-> Map([operationState |-> Map(<<>>)])]),
     repo |-> Str("https://h/a/b.git")]

EmptyContext == <<>>

Contexts == {FullContext, NoStatusContext, NullContext, OddContext, EmptyContext}

StalePayload == Payload("stale-repo", "stale-rev", "stale-state", "stale-label",
                        "stale-url")

EntryNotifications ==
    {[GitHub |-> NoPayload, Message |-> ShortMessage],
     [GitHub |-> StalePayload, Message |-> ShortMessage]}

Callers == 1..MaxCallers

\* ------------------------------------------------------------------------
\* GetTemplater and the closure as steps
\* ------------------------------------------------------------------------

Idle == [at |-> "idle", i |-> 0]

Done == [at |-> "done", i |-> 0]

NotReturned == [returned |-> FALSE]

NoNotification == [GitHub |-> NoPayload, Message |-> <<>>]

\* the state of the closures before any call
ClosuresIdle ==
    /\ notif = [c \in Callers |-> NoNotification]
    /\ entry = [c \in Callers |-> NoNotification]
    /\ cvars = [c \in Callers |-> <<>>]
    /\ epc = [c \in Callers |-> Idle]
    /\ ret = [c \in Callers |-> NotReturned]
    /\ buf = [b \in Callers \X (1..Len(Fields)) |-> ""]

\* the state of Send before any call
SendIdle ==
    /\ pc = "start"
    /\ fullName = <<>>
    /\ u = <<>>
    /\ description = <<>>
    /\ calls = <<>>
    /\ apiReturn = [returned |-> FALSE]
    /\ sendResult = [kind |-> "none"]

\* The service loop calls GetTemplater once for the configured notification.
Compile ==
    /\ ~templater.ready
    /\ templater' = GetTemplater(g, name, FuncMap)
    /\ UNCHANGED <<g, name, notif, cvars, epc, buf, ret, entry>>
    /\ UNCHANGED sendVars

\* Caller c calls the closure on notification nt with vars v (lines 81-84).
ExecutorCall(c, nt, v) ==
    /\ templater.ready
    /\ templater.executor
    /\ epc[c] = Idle
    /\ entry' = [entry EXCEPT ![c] = nt]
    /\ notif' = [notif EXCEPT ![c] = Allocate(nt)]
    /\ cvars' = [cvars EXCEPT ![c] = v]
    /\ epc' = [epc EXCEPT ![c] = [at |-> "execute", i |-> 1]]
    /\ UNCHANGED <<g, name, templater, buf, ret>>
    /\ UNCHANGED sendVars

\* One buffer shared by the calls, had the buffers been captured variables.
BufferShared(c, i) == <<1, i>>

\* The buffer of the i-th template in caller c's call: a local of the call
\* (var repoData bytes.Buffer, ...).
BufferOf(c, i) == <<c, i>>

\* A variant that stores the buffer's string before it looks at the error.
ExecuteFieldStoreFirst(c) ==
    /\ epc[c].at = "execute"
    /\ LET i == epc[c].i
           r == ExecuteTemplate(templater.t[Fields[i]], cvars[c])
       IN  /\ buf' = [buf EXCEPT ![BufferOf(c, i)] = r.out]
           /\ IF ~r.err.nil
              THEN /\ ret' = [ret EXCEPT ![c] = [returned |-> TRUE, err |-> r.err]]
                   /\ epc' = [epc EXCEPT ![c] = Done]
                   /\ notif' = [notif EXCEPT ![c].GitHub[Fields[i]] = r.out]
              ELSE /\ epc' = [epc EXCEPT ![c] = [at |-> "assign", i |-> i]]
                   /\ UNCHANGED <<ret, notif>>
    /\ UNCHANGED <<g, name, templater, cvars, entry>>
    /\ UNCHANGED sendVars

\* Caller c executes its i-th template into the buffer (lines 86-89, 92-95,
\* 98-101, 104-107, 110-113).
ExecuteField(c) ==
    /\ epc[c].at = "execute"
    /\ LET i == epc[c].i
           r == ExecuteTemplate(templater.t[Fields[i]], cvars[c])
       IN  /\ buf' = [buf EXCEPT ![BufferOf(c, i)] = r.out]
           /\ IF ~r.err.nil
              THEN /\ ret' = [ret EXCEPT ![c] = [returned |-> TRUE, err |-> r.err]]
                   /\ epc' = [epc EXCEPT ![c] = Done]
              ELSE /\ epc' = [epc EXCEPT ![c] = [at |-> "assign", i |-> i]]
                   /\ UNCHANGED ret
    /\ UNCHANGED <<g, name, templater, notif, cvars, entry>>
    /\ UNCHANGED sendVars

\* Caller c stores the buffer's string in the payload field (lines 90, 96,
\* 102, 108, 114) and goes on, or returns nil (line 116).
AssignField(c) ==
    /\ epc[c].at = "assign"
    /\ LET i == epc[c].i
       IN  /\ notif' = [notif EXCEPT ![c].GitHub[Fields[i]] = buf[BufferOf(c, i)]]
           /\ IF i = Len(Fields)
              THEN /\ ret' = [ret EXCEPT ![c] = [returned |-> TRUE, err |-> NilErr]]
                   /\ epc' = [epc EXCEPT ![c] = Done]
              ELSE /\ epc' = [epc EXCEPT ![c] = [at |-> "execute", i |-> i + 1]]
                   /\ UNCHANGED ret
    /\ UNCHANGED <<g, name, templater, cvars, buf, entry>>
    /\ UNCHANGED sendVars

NotCompiled == [ready |-> FALSE]

\* One caller at a time: every configuration, every context.
TemplaterInit ==
    /\ g \in Configs
    /\ name \in Names
    /\ templater = NotCompiled
    /\ ClosuresIdle
    /\ notification = NoNotification
    /\ SendIdle

TemplaterNext ==
    \/ Compile
    \/ \E nt \in EntryNotifications, v \in Contexts : ExecutorCall(1, nt, v)
    \/ ExecuteField(1)
    \/ AssignField(1)

TemplaterSpec == TemplaterInit /\ [][TemplaterNext]_vars

\* Several callers share one closure, each on its own notification.
ConcurrentConfigs ==
    {[RepoURL |-> "", Revision |-> "", State |-> "{{.app.status.sync.status}}",
      Label |-> "{{.app.metadata.name}}", TargetURL |-> "{{.context.argocdUrl}}"],
     [RepoURL |-> "{{.repo}}", Revision |-> "{{.rev}}", State |-> "success",
      Label |-> "{{.app.metadata.name}}", TargetURL |-> "http://x"]}

ConcurrentContexts == {FullContext, NullContext}

ConcurrentInit ==
    /\ g \in ConcurrentConfigs
    /\ name = "on-deployed"
    /\ templater = NotCompiled
    /\ ClosuresIdle
    /\ notification = NoNotification
    /\ SendIdle

ConcurrentNext ==
    \/ Compile
    \/ \E c \in Callers, nt \in EntryNotifications, v \in ConcurrentContexts :
          ExecutorCall(c, nt, v)
    \/ \E c \in Callers : ExecuteField(c)
    \/ \E c \in Callers : AssignField(c)

ConcurrentSpec == ConcurrentInit /\ [][ConcurrentNext]_vars

\* ------------------------------------------------------------------------
\* Send (lines 177-202)
\* ------------------------------------------------------------------------

StatusRequest(owner, repo, ref, gh, desc) ==
    [owner |-> owner, repo |-> repo, ref |-> ref,
     State |-> gh.State, Description |-> desc,
     Context |-> gh.Label, TargetURL |-> gh.TargetURL]

\* The statement g.client.Repositories.CreateStatus(ctx, u[0], u[1], ...):
\* the request issued, given u and the description (lines 185-196).
CreateStatusSwapped(n, parts, desc) ==
    StatusRequest(parts[2], parts[1], n.GitHub.Revision, n.GitHub, desc)

CreateStatusCall(n, parts, desc) ==
    StatusRequest(parts[1], parts[2], n.GitHub.Revision, n.GitHub, desc)

SendInit ==
    /\ notification \in Notifications
    /\ SendIdle
    /\ g = [RepoURL |-> "", Revision |-> "", State |-> "", Label |-> "",
            TargetURL |-> ""]
    /\ name = ""
    /\ templater = NotCompiled
    /\ ClosuresIdle

Panic(m) == [kind |-> "panic", msg |-> m]

\* the test of line 178
PayloadNeverNil(n) == FALSE

PayloadIsNil(n) == ~n.GitHub.present

\* Send up to the point where it waits for CreateStatus (lines 177-196).
Send ==
    /\ pc = "start"
    /\ IF PayloadIsNil(notification)
       THEN /\ pc' = "return"
            /\ sendResult' = [kind |-> "error", err |-> Err("config is empty")]
            /\ UNCHANGED <<fullName, u, description, calls>>
       ELSE IF ~notification.GitHub.present
       THEN \* notification.GitHub.RepoURL through a nil pointer
            /\ pc' = "panic"
            /\ sendResult' = Panic("nil pointer dereference")
            /\ UNCHANGED <<fullName, u, description, calls>>
       ELSE LET slug == fullNameByRepoURL(notification.GitHub.RepoURL)
            IN  IF slug.panic
                THEN /\ pc' = "panic"
                     /\ sendResult' = Panic("failed to parse")
                     /\ UNCHANGED <<fullName, u, description, calls>>
                ELSE LET parts == stringsSplit(slug.v, "/")
                         desc  == trunc(notification.Message, TruncLimit)
                     IN  /\ fullName' = slug.v
                         /\ u' = parts
                         /\ description' = desc
                         /\ IF Len(parts) < 2
                            THEN \* u[1] is evaluated before the call
                                 /\ pc' = "panic"
                                 /\ sendResult' =
                                        Panic("index out of range [1] with length 1")
                                 /\ UNCHANGED calls
                            ELSE /\ pc' = "CreateStatus"
                                 /\ calls' = Append(calls,
                                        CreateStatusCall(notification, parts, desc))
                                 /\ UNCHANGED sendResult
    /\ UNCHANGED <<notification, apiReturn>>
    /\ UNCHANGED tmplVars

\* what Send returns for the error CreateStatus returned (lines 197-201)
SendReturnSwallow(err) == [kind |-> "ok"]

SendReturn(err) ==
    IF ~err.nil THEN [kind |-> "error", err |-> err] ELSE [kind |-> "ok"]

\* CreateStatus returns and Send returns its error (lines 185, 197-201).
CreateStatusReturns(err) ==
    /\ pc = "CreateStatus"
    /\ pc' = "return"
    /\ apiReturn' = [returned |-> TRUE, err |-> err]
    /\ sendResult' = SendReturn(err)
    /\ UNCHANGED <<notification, fullName, u, description, calls>>
    /\ UNCHANGED tmplVars

SendNext ==
    \/ Send
    \/ \E err \in ApiErrors : CreateStatusReturns(err)

Spec == SendInit /\ [][SendNext]_vars

\* ------------------------------------------------------------------------
\* Properties of Send, trunc and fullNameByRepoURL (checked under Spec)
\* ------------------------------------------------------------------------

gh == notification.GitHub

SendActed == pc # "start"

\* the path segments of a repository URL: the parsed path without its
\* trailing ".git", split on "/", the empty pieces dropped
Segments(rawURL) ==
    SplitRemoveEmpty(StripGitSuffix(giturlsParse(rawURL).Path), "/")

ConfigError == [kind |-> "error", err |-> Err("config is empty")]

\* C1: a notification without payload makes Send return the configuration
\* error and nothing else: no CreateStatus call is issued, no local of the
\* URL resolution or the truncation is computed, and Send does not panic.
C1_MissingPayloadIsConfigError ==
    ~gh.present =>
        /\ calls = <<>>
        /\ pc \in {"start", "return"}
        /\ <<fullName, u, description>> = <<(<<>>), (<<>>), (<<>>)>>
        /\ ~apiReturn.returned
        /\ SendActed => sendResult = ConfigError

C1_Witness ==
    /\ ~gh.present
    /\ pc = "return"
    /\ sendResult = ConfigError
    /\ Len(notification.Message) > TruncLimit

\* C2 (as claimed): a RepoURL with fewer than two path segments makes Send
\* return an error to its caller, without a panic and without a CreateStatus
\* call; and no call ever carries an empty owner or repository name.
C2_FewSegmentsIsRecoverableError ==
    /\ (gh.present /\ SendActed /\ Len(Segments(gh.RepoURL)) < 2) =>
            /\ pc = "return"
            /\ sendResult.kind = "error"
            /\ calls = <<>>
    /\ \A i \in 1..Len(calls) : calls[i].owner # <<>> /\ calls[i].repo # <<>>

\* C3: a payload whose RepoURL has at least two path segments makes Send
\* issue exactly one CreateStatus call: owner and repo are the first two
\* segments, ref, state, context and target URL are the payload's Revision,
\* State, Label and TargetURL, and the description is the message truncated
\* to at most 140 code points.
C3_OneStatusCallWithPayloadFields ==
    (gh.present /\ SendActed /\ Len(Segments(gh.RepoURL)) >= 2) =>
        /\ pc \in {"CreateStatus", "return"}
        /\ Len(calls) = 1
        /\ calls[1].owner = Segments(gh.RepoURL)[1]
        /\ calls[1].repo = Segments(gh.RepoURL)[2]
        /\ calls[1].ref = gh.Revision
        /\ calls[1].State = gh.State
        /\ calls[1].Context = gh.Label
        /\ calls[1].TargetURL = gh.TargetURL
        /\ calls[1].Description = trunc(notification.Message, TruncLimit)
        /\ RuneCountInString(calls[1].Description) <= TruncLimit

C3_Witness ==
    /\ gh.present
    /\ gh.RepoURL = <<"https://", "github.com", "/", "o", "/", "r", ".git">>
    /\ pc = "return"
    /\ Len(calls) = 1
    /\ calls[1].owner = <<"o">>
    /\ calls[1].repo = <<"r">>
    /\ calls[1].ref = "abc123"
    /\ RuneCountInString(notification.Message) > TruncLimit
    /\ RuneCountInString(calls[1].Description) = TruncLimit

\* C4: Send's description is trunc(Message, 140): a message of at most 140
\* code points is unchanged; a longer one becomes exactly 140 code points,
\* the first 137 of the message followed by "..."; the count is of code
\* points, whatever the number of bytes.
C4_TruncByCodePoints ==
    (gh.present /\ SendActed) =>
        LET rin  == Runes(notification.Message)
            rout == Runes(description)
        IN  /\ Len(rin) <= TruncLimit => description = notification.Message
            /\ Len(rin) > TruncLimit =>
                    /\ Len(rout) = TruncLimit
                    /\ SubSeq(rout, 1, TruncLimit - 3) = SubSeq(rin, 1, TruncLimit - 3)
                    /\ SubSeq(rout, TruncLimit - 2, TruncLimit) = Ellipsis
                    /\ SubSeq(description, Len(description) - 2, Len(description))
                           = Ellipsis

\* a message of more than 140 code points, several bytes each, was truncated
C4_Witness ==
    /\ gh.present
    /\ SendActed
    /\ RuneCountInString(notification.Message) > TruncLimit
    /\ Len(description) > 2 * TruncLimit
    /\ RuneCountInString(description) = TruncLimit

\* C7: Send invokes CreateStatus at most once, returns the error CreateStatus
\* returned, and returns success exactly when that call returned none.
C7_ApiErrorPropagatedNoRetry ==
    /\ Len(calls) <= 1
    /\ apiReturn.returned =>
            /\ Len(calls) = 1
            /\ pc = "return"
            /\ ~apiReturn.err.nil =>
                    sendResult = [kind |-> "error", err |-> apiReturn.err]
            /\ apiReturn.err.nil => sendResult = [kind |-> "ok"]
    /\ sendResult.kind = "ok" =>
            Len(calls) = 1 /\ apiReturn.returned /\ apiReturn.err.nil

C7_Witness ==
    /\ apiReturn.returned
    /\ apiReturn.err = Err("401 Bad credentials")
    /\ sendResult = [kind |-> "error", err |-> Err("401 Bad credentials")]
    /\ Len(calls) = 1

HasNoSlashAtEnds(s) == s = <<>> \/ (s[1] # "/" /\ s[Len(s)] # "/")

\* C10 (as claimed): fullNameByRepoURL returns the first two path segments
\* joined by "/", or the single segment, or the empty string, never a value
\* with a leading or trailing "/" or an empty segment.
C10_SlugIsSegments ==
    (gh.present /\ SendActed) =>
        LET segs == Segments(gh.RepoURL)
        IN  /\ fullName = IF Len(segs) >= 2 THEN segs[1] \o <<"/">> \o segs[2]
                          ELSE IF Len(segs) = 1 THEN segs[1]
                          ELSE <<>>
            /\ HasNoSlashAtEnds(fullName)
            /\ fullName # <<>> => \A i \in 1..Len(u) : u[i] # <<>>

\* ------------------------------------------------------------------------
\* Properties of GetTemplater and its closure
\* (checked under TemplaterSpec and ConcurrentSpec)
\* ------------------------------------------------------------------------

\* the order the specification gives for parsing and for executing
FieldOrder == <<"RepoURL", "Revision", "State", "Label", "TargetURL">>

\* the template text of a field: the configured one, or the default for an
\* empty RepoURL or Revision
FieldText(cfg, fld) ==
    IF fld = "RepoURL" /\ cfg.RepoURL = "" THEN "{{.app.spec.source.repoURL}}"
    ELSE IF fld = "Revision" /\ cfg.Revision = ""
    THEN "{{.app.status.operationState.syncResult.revision}}"
    ELSE cfg[fld]

\* the positions, in FieldOrder, of the fields whose text does not parse
BadFields(cfg, tname) ==
    {i \in 1..Len(FieldOrder) :
        ~Parse(tname, FuncMap, FieldText(cfg, FieldOrder[i])).err.nil}

Least(S) == CHOOSE i \in S : \A j \in S : i <= j

Render(cfg, tname, fld, v) ==
    ExecuteTemplate(Parse(tname, FuncMap, FieldText(cfg, fld)), v)

\* the positions of the fields whose template fails to execute in context v
FailingFields(cfg, tname, v) ==
    {i \in 1..Len(FieldOrder) : ~Render(cfg, tname, FieldOrder[i], v).err.nil}

Returned(err) == [returned |-> TRUE, err |-> err]

\* C6: when all five templates execute in the caller's context, the closure
\* returns nil, the notification has a payload, and each payload field is the
\* rendering of its own template (the default one for an empty RepoURL or
\* Revision), whatever the payload held before; and the closure returns nil
\* only then.
C6_SuccessfulExecutePopulatesAll ==
    \A c \in Callers :
       epc[c] = Done =>
          LET ok == FailingFields(g, name, cvars[c]) = {}
          IN  /\ ok <=> ret[c] = Returned(NilErr)
              /\ ok =>
                    /\ notif[c].GitHub.present
                    /\ \A i \in 1..Len(FieldOrder) :
                          notif[c].GitHub[FieldOrder[i]]
                             = Render(g, name, FieldOrder[i], cvars[c]).out

\* a reused payload, default RepoURL and Revision templates
C6_Witness ==
    /\ epc[1] = Done
    /\ ret[1] = Returned(NilErr)
    /\ entry[1].GitHub = StalePayload
    /\ g.RepoURL = ""
    /\ g.Revision = ""
    /\ g.State = "{{.app.status.sync.status}}"
    /\ notif[1].GitHub =
          Payload("https://x/y/z.git", "abc123", "Synced", "ci", "https://argocd")

\* the value of a payload field before the call ("" without a payload)
Before(c, fld) ==
    IF entry[c].GitHub.present THEN entry[c].GitHub[fld] ELSE ""

\* C9: when the i-th template (in the order repoURL, revision, state, label,
\* targetURL) is the first that fails to execute, the closure returns that
\* error at once: no later template is executed, the fields before i hold
\* their renderings, the fields from i on hold what they held before the call
\* ("" in a fresh payload); and the notification's Message is never changed.
C9_PartialFailureKeepsLaterFields ==
    \A c \in Callers :
       /\ epc[c] # Idle => notif[c].Message = entry[c].Message
       /\ (epc[c] = Done /\ ret[c] # Returned(NilErr)) =>
             LET failing == FailingFields(g, name, cvars[c])
             IN  /\ failing # {}
                 /\ ret[c] = Returned(Render(g, name, FieldOrder[Least(failing)],
                                             cvars[c]).err)
                 /\ notif[c].GitHub.present
                 /\ \A j \in 1..Len(FieldOrder) :
                       IF j < Least(failing)
                       THEN notif[c].GitHub[FieldOrder[j]]
                               = Render(g, name, FieldOrder[j], cvars[c]).out
                       ELSE /\ notif[c].GitHub[FieldOrder[j]] = Before(c, FieldOrder[j])
                            /\ j > Least(failing) => buf[<<c, j>>] = ""

\* the third template fails on a reused payload
C9_Witness ==
    /\ epc[1] = Done
    /\ name = "on-deployed"
    /\ cvars[1] = NullContext
    /\ ret[1] = Returned(Err("template: on-deployed:1: executing \"on-deployed\" at <.app.status.sync.status>: nil pointer evaluating interface {}.sync"))
    /\ entry[1].GitHub = StalePayload
    /\ notif[1].GitHub =
          Payload("<no value>", "0000", "stale-state", "stale-label", "stale-url")

\* what caller c's call gives when it runs alone on a freshly compiled set
Alone(c) == Templater(GetTemplater(g, name, FuncMap).t, entry[c], cvars[c])

\* C8: callers that run the one closure at the same time, each on its own
\* notification, get what they get alone: at every point of every
\* interleaving a caller's payload holds the fields it has rendered so far
\* and its entry values for the rest, a finished caller has the notification
\* and the error of its call run alone, and the compiled templates stay what
\* GetTemplater returned.
C8_ConcurrentCallersAsAlone ==
    /\ templater.ready => templater = GetTemplater(g, name, FuncMap)
    /\ \A c \in Callers :
          epc[c] # Idle =>
             IF epc[c] = Done
             THEN /\ notif[c] = Alone(c).notification
                  /\ ret[c] = Returned(Alone(c).err)
             ELSE /\ ret[c] = NotReturned
                  /\ notif[c].Message = entry[c].Message
                  /\ \A j \in 1..Len(FieldOrder) :
                        notif[c].GitHub[FieldOrder[j]] =
                           IF j < epc[c].i
                           THEN Alone(c).notification.GitHub[FieldOrder[j]]
                           ELSE Before(c, FieldOrder[j])

\* two callers are inside the closure at once, each with its own renderings
C8_Witness ==
    /\ epc[1] = [at |-> "assign", i |-> 5]
    /\ epc[2] = [at |-> "execute", i |-> 2]
    /\ cvars[1] = FullContext
    /\ cvars[2] = NullContext
    /\ notif[1].GitHub.RepoURL = "https://x/y/z.git"
    /\ notif[1].GitHub.Label = "guestbook"
    /\ notif[2].GitHub.RepoURL = "ssh://h/a/b"
    /\ entry[2].GitHub = StalePayload

=============================================================================
